---- MODULE Spec2Model ----
(***************************************************************************)
(* Model of repo_management/files.py: the member-name resolver            *)
(* (_extract_db_member_package_name), the archive reader                  *)
(* (_db_file_member_as_model) and the archive writer                      *)
(* (_stream_package_base_to_db).                                          *)
(*                                                                         *)
(* Python strings are sequences of one-character strings, so that the     *)
(* regular expressions and the hyphen split are computed character by     *)
(* character.  The two-byte character e-acute is written "U+00E9".       *)
(***************************************************************************)
EXTENDS Naturals, Sequences, FiniteSets

VARIABLES
    name_arg,       \* _extract_db_member_package_name: the argument `name`
    name_ret,       \* _extract_db_member_package_name: the outcome of the call
    db_file,        \* reader: the members of the opened tarfile.TarFile
    regex,          \* reader: the `regex` parameter
    rpc,            \* reader: position of the generator
    todo,           \* reader: the filtered names still to be visited
    yielded,        \* reader: the records yielded so far
    reader_raised,  \* reader: the exception that ended the generator
    model,          \* writer: the OutputPackageBase given
    db_type,        \* writer: the RepoDbType given
    host,           \* the user and group of the process that runs the writer
    now,            \* the host clock, in ticks
    db,             \* writer: the entries added to the tarfile, in order
    pc,             \* writer: position in the body of the for loop
    i,              \* writer: index of the package of the current iteration
    raised,         \* writer: the exception that left the function
    run,            \* how many times the writer was started on `model`
    first_db        \* the archive the first of two runs produced

vars == << name_arg, name_ret, db_file, regex, rpc, todo, yielded, reader_raised,
           model, db_type, host, now, db, pc, i, raised, run, first_db >>

name_vars == << name_arg, name_ret >>
reader_vars == << db_file, regex, rpc, todo, yielded, reader_raised >>
writer_vars == << model, db_type, host, now, db, pc, i, raised, run, first_db >>

(***************************************************************************)
(* Bounds of the model.                                                    *)
(***************************************************************************)
MaxDirLen == 7
MaxMembers == 2
MaxPkgs == 2
MaxTime == 2
TicksPerSecond == 2

(***************************************************************************)
(* Strings.                                                                *)
(***************************************************************************)
Hyphen == "-"
Newline == "\n"
DescSuffix == << "/", "d", "e", "s", "c" >>
FilesSuffix == << "/", "f", "i", "l", "e", "s" >>

EndsWith(s, p) == Len(p) <= Len(s) /\ SubSeq(s, Len(s) - Len(p) + 1, Len(s)) = p
DropTail(s, n) == IF n >= Len(s) THEN << >> ELSE SubSeq(s, 1, Len(s) - n)
HyphenCount(s) == Cardinality({k \in DOMAIN s : s[k] = Hyphen})

\* Where "<literal>$" matches in s: 0 when it does not, else the index of the
\* first character of the match.  Python's $ (no MULTILINE) matches at the end
\* of the string and also just before a newline that ends the string.
DollarMatch(s, lit) ==
    IF EndsWith(s, lit) THEN Len(s) - Len(lit) + 1
    ELSE IF Len(s) > 0 /\ s[Len(s)] = Newline /\ EndsWith(DropTail(s, 1), lit)
         THEN Len(s) - Len(lit)
         ELSE 0

\* The patterns the module uses, plus one a caller may pass as `regex`.
MemberRegex == "(/desc|/files)$"
DescRegex == "(/desc)$"
FilesRegex == "(/files)$"
AnyRegex == ""

\* re.search(pattern, s) is not None
re_search(pattern, s) ==
    CASE pattern = MemberRegex -> DollarMatch(s, DescSuffix) > 0 \/ DollarMatch(s, FilesSuffix) > 0
      [] pattern = DescRegex -> DollarMatch(s, DescSuffix) > 0
      [] pattern = FilesRegex -> DollarMatch(s, FilesSuffix) > 0
      [] pattern = AnyRegex -> TRUE

\* re.sub("(/desc|/files)$", "", s): the matched literal is removed, a newline
\* after it stays.
re_sub_member(s) ==
    LET d == DollarMatch(s, DescSuffix)
        f == DollarMatch(s, FilesSuffix)
        cut(at, n) == SubSeq(s, 1, at - 1) \o SubSeq(s, at + n, Len(s))
    IN  IF d > 0 THEN cut(d, Len(DescSuffix))
        ELSE IF f > 0 THEN cut(f, Len(FilesSuffix))
        ELSE s

\* re.split("(-)", s): the pieces between hyphens, the hyphens kept as tokens.
RECURSIVE re_split_hyphen(_)
re_split_hyphen(s) ==
    IF \A k \in DOMAIN s : s[k] # Hyphen THEN << s >>
    ELSE LET at == CHOOSE k \in DOMAIN s :
                       s[k] = Hyphen /\ \A j \in 1..(k - 1) : s[j] # Hyphen
         IN  << SubSeq(s, 1, at - 1), << Hyphen >> >>
                 \o re_split_hyphen(SubSeq(s, at + 1, Len(s)))

\* tokens[:-4]
DropLastFour(tokens) == DropTail(tokens, 4)

\* "".join(tokens)
RECURSIVE Join(_)
Join(tokens) == IF tokens = << >> THEN << >> ELSE Head(tokens) \o Join(Tail(tokens))

DropLastTwo(tokens) == DropTail(tokens, 2)

ExtractKeepingVersion(name) == Join(DropLastTwo(re_split_hyphen(re_sub_member(name))))

_extract_db_member_package_name(name) ==
    Join(DropLastFour(re_split_hyphen(re_sub_member(name))))

(***************************************************************************)
(* The resolver on its own: one call on a member path.                     *)
(***************************************************************************)
DirChars == { "a", "1", Hyphen }
Dirnames == UNION { [1..n -> DirChars] : n \in 0..MaxDirLen }
PathSuffixes == { DescSuffix, FilesSuffix, DescSuffix \o << Newline >>, << >> }
MemberPaths == { d \o s : d \in Dirnames, s \in PathSuffixes }

NotCalled == [called |-> FALSE, value |-> << >>, raised |-> "none"]

\* The function has one statement, the return: no path of it raises.
CallExtract ==
    /\ ~name_ret.called
    /\ name_ret' = [called |-> TRUE,
                    value |-> _extract_db_member_package_name(name_arg),
                    raised |-> "none"]
    /\ UNCHANGED << name_arg, reader_vars, writer_vars >>

(***************************************************************************)
(* What the writer and the reader use of the modules that are not in src/. *)
(***************************************************************************)
\* defaults: the owner, the group and the two modes, strings of octal digits.
DB_USER == "root"
DB_GROUP == "root"
DB_DIR_MODE == << "0", "7", "5", "5" >>
DB_FILE_MODE == << "0", "6", "4", "4" >>

\* defaults.RepoDbType and defaults.RepoDbMemberType
RepoDbType == { "DEFAULT", "FILES" }
RepoDbMemberType == { "UNKNOWN", "DESC", "FILES" }

\* models.OutputPackageBase.get_packages_as_models(): one (desc model, files
\* model) pair per package of the pkgbase, in the order of its package list.
get_packages_as_models(m) ==
    [k \in DOMAIN m.packages |->
        [desc_model |-> [name |-> m.packages[k].name, version |-> m.version],
         files_model |-> [name |-> m.packages[k].name, files |-> m.packages[k].files]]]

\* convert.RepoDbFile.render_desc_template(): the %NAME% and %VERSION% blocks.
render_desc_template(desc_model) ==
    << "%", "N", "A", "M", "E", "%", Newline >> \o desc_model.name \o << Newline, Newline >>
        \o << "%", "V", "E", "R", "S", "I", "O", "N", "%", Newline >>
        \o desc_model.version \o << Newline, Newline >>

\* convert.RepoDbFile.render_files_template(): the %FILES% block.
render_files_template(files_model) ==
    << "%", "F", "I", "L", "E", "S", "%", Newline >> \o files_model.files \o << Newline >>

(***************************************************************************)
(* Python and tarfile primitives the two functions call.                   *)
(***************************************************************************)
REGTYPE == "REGTYPE"
DIRTYPE == "DIRTYPE"
None == "None"
Invalid == "Invalid"

DigitValue(c) ==
    CASE c = "0" -> 0 [] c = "1" -> 1 [] c = "2" -> 2 [] c = "3" -> 3
      [] c = "4" -> 4 [] c = "5" -> 5 [] c = "6" -> 6 [] c = "7" -> 7

\* int(digits, base=8)
RECURSIVE int_base8(_)
int_base8(digits) ==
    IF digits = << >> THEN 0
    ELSE int_base8(DropTail(digits, 1)) * 8 + DigitValue(digits[Len(digits)])

\* str.encode(): UTF-8, one byte per ASCII character, two for e-acute.
RECURSIVE encode(_)
encode(chars) ==
    IF chars = << >> THEN << >>
    ELSE (IF Head(chars) = "U+00E9" THEN << "xC3", "xA9" >> ELSE << Head(chars) >>)
             \o encode(Tail(chars))

\* bytes.decode("utf-8"): Invalid stands for UnicodeDecodeError.
RECURSIVE decode(_)
decode(bytes) ==
    IF bytes = << >> THEN << >>
    ELSE IF Head(bytes) = "xC3"
         THEN IF Len(bytes) >= 2 /\ bytes[2] = "xA9"
              THEN LET rest == decode(Tail(Tail(bytes)))
                   IN  IF rest = Invalid THEN Invalid ELSE << "U+00E9" >> \o rest
              ELSE Invalid
         ELSE IF Head(bytes) = "xA9" THEN Invalid
         ELSE LET rest == decode(Tail(bytes))
              IN  IF rest = Invalid THEN Invalid ELSE << Head(bytes) >> \o rest

\* int(time.time()) when the clock reads t ticks
int_time(t) == t \div TicksPerSecond

\* tarfile.TarInfo(name): a regular file of size 0, mode 0o644, no owner names.
TarInfo(name) ==
    [name |-> name, type |-> REGTYPE, mtime |-> 0, uname |-> "", gname |-> "",
     mode |-> int_base8(<< "0", "6", "4", "4" >>), size |-> 0]

\* TarFile.addfile(tarinfo, fileobj): the member is appended with tarinfo.size
\* bytes of fileobj (none without a fileobj).
addfile(archive, tarinfo, bytes) ==
    Append(archive, [name |-> tarinfo.name, type |-> tarinfo.type, mtime |-> tarinfo.mtime,
                     uname |-> tarinfo.uname, gname |-> tarinfo.gname, mode |-> tarinfo.mode,
                     size |-> tarinfo.size, data |-> SubSeq(bytes, 1, tarinfo.size)])

\* TarFile.getnames()
getnames(archive) == [k \in DOMAIN archive |-> archive[k].name]

\* TarFile.extractfile(name).read(): the last member of that name; None (and so
\* an AttributeError on .read()) unless it is a regular file.
extractfile(archive, name) ==
    LET at == CHOOSE k \in DOMAIN archive :
                  archive[k].name = name
                  /\ \A j \in DOMAIN archive : archive[j].name = name => j <= k
    IN  IF archive[at].type = REGTYPE THEN archive[at].data ELSE None

(***************************************************************************)
(* _stream_package_base_to_db                                              *)
(***************************************************************************)
PackagesReversed ==
    LET ps == get_packages_as_models(model)
    IN  [k \in DOMAIN ps |-> ps[Len(ps) + 1 - k]]

\* line 205: the list the for loop goes through
Packages == get_packages_as_models(model)

DirnameVersionFirst(desc_model) == model.version \o << Hyphen >> \o desc_model.name

\* f"{desc_model.name}-{model.version}"
dirname(desc_model) == desc_model.name \o << Hyphen >> \o model.version

DirectoryInfoDefaultMode(dn, t) ==
    [TarInfo(dn) EXCEPT !.type = DIRTYPE, !.mtime = int_time(t),
                        !.uname = DB_USER, !.gname = DB_GROUP]

DirectoryInfoOfHost(dn, t) ==
    [TarInfo(dn) EXCEPT !.type = DIRTYPE, !.mtime = int_time(t),
                        !.uname = host.user, !.gname = host.group,
                        !.mode = int_base8(DB_DIR_MODE)]

\* lines 207-212: the directory entry
DirectoryInfo(dn, t) ==
    [TarInfo(dn) EXCEPT !.type = DIRTYPE, !.mtime = int_time(t),
                        !.uname = DB_USER, !.gname = DB_GROUP,
                        !.mode = int_base8(DB_DIR_MODE)]

\* lines 217-222 and 227-232: a desc or files entry of the given content
FileInfo(path, content, t) ==
    [TarInfo(path) EXCEPT !.size = Len(encode(content)), !.mtime = int_time(t),
                          !.uname = DB_USER, !.gname = DB_GROUP,
                          !.mode = int_base8(DB_FILE_MODE)]

\* time.time(): the clock does not run backwards and is read once per entry.
Readings == { t \in now..(now + 1) : t <= MaxTime }

AlwaysWritesFiles == TRUE

\* line 224
WritesFiles == db_type = "FILES"

\* The loop goes to its next iteration, or ends.
NextIteration ==
    /\ i' = i + 1
    /\ pc' = IF i + 1 <= Len(Packages) THEN "dir" ELSE "done"

\* lines 206-213
AddDirectory ==
    /\ pc = "dir"
    /\ \E t \in Readings :
        /\ now' = t
        /\ db' = addfile(db, DirectoryInfo(dirname(Packages[i].desc_model), t), << >>)
    /\ pc' = "desc"
    /\ UNCHANGED << name_vars, reader_vars, model, db_type, host, i, raised, run, first_db >>

\* lines 215-224
AddDesc ==
    /\ pc = "desc"
    /\ \E t \in Readings :
        LET desc_content == render_desc_template(Packages[i].desc_model)
            path == dirname(Packages[i].desc_model) \o DescSuffix
        IN  /\ now' = t
            /\ db' = addfile(db, FileInfo(path, desc_content, t), encode(desc_content))
    /\ IF WritesFiles THEN pc' = "files" /\ i' = i ELSE NextIteration
    /\ UNCHANGED << name_vars, reader_vars, model, db_type, host, raised, run, first_db >>

\* lines 225-233
AddFiles ==
    /\ pc = "files"
    /\ \E t \in Readings :
        LET files_content == render_files_template(Packages[i].files_model)
            path == dirname(Packages[i].desc_model) \o FilesSuffix
        IN  /\ now' = t
            /\ db' = addfile(db, FileInfo(path, files_content, t), encode(files_content))
    /\ NextIteration
    /\ UNCHANGED << name_vars, reader_vars, model, db_type, host, raised, run, first_db >>

\* An exception caught and logged inside the loop, the statement tried again.
Swallow(kind) ==
    /\ raised' = kind
    /\ UNCHANGED << pc, i >>

\* The function has no try: an exception of addfile or of a template leaves it.
Propagate(kind) ==
    /\ raised' = kind
    /\ pc' = "done"
    /\ UNCHANGED i

\* db.addfile() or a render_*_template() raises.
Raise ==
    /\ raised = "none"
    /\ \/ pc \in { "dir", "desc", "files" } /\ Propagate("addfile")
       \/ pc \in { "desc", "files" } /\ Propagate("render")
    /\ UNCHANGED << name_vars, reader_vars, model, db_type, host, now, db, run, first_db >>

(***************************************************************************)
(* _db_file_member_as_model                                                *)
(***************************************************************************)
MemberTypeDescOnly(name) ==
    IF re_search(DescRegex, name) THEN "DESC" ELSE "UNKNOWN"

\* lines 79-83
MemberType(name) ==
    LET unknown == "UNKNOWN"
        after_desc == IF re_search(DescRegex, name) THEN "DESC" ELSE unknown
    IN  IF re_search(FilesRegex, name) THEN "FILES" ELSE after_desc

\* line 78: [name for name in db_file.getnames() if re.search(regex, name)]
FilterNames(pattern, names) == SelectSeq(names, LAMBDA n : re_search(pattern, n))

\* lines 85-95: the record of one member whose bytes decode
RepoDbMemberData(archive, name) ==
    [member_type |-> MemberType(name),
     name |-> _extract_db_member_package_name(name),
     data |-> decode(extractfile(archive, name))]

\* What reading the member of that name raises: "none" when nothing.
ReadError(archive, name) ==
    IF extractfile(archive, name) = None THEN "AttributeError"
    ELSE IF decode(extractfile(archive, name)) = Invalid THEN "UnicodeDecodeError"
    ELSE "none"

\* The first next() on the generator evaluates the list comprehension.
ReaderStart ==
    /\ rpc = "open"
    /\ todo' = FilterNames(regex, getnames(db_file))
    /\ rpc' = "iter"
    /\ UNCHANGED << name_vars, db_file, regex, yielded, reader_raised, writer_vars >>

ReaderYield ==
    /\ rpc = "iter"
    /\ todo # << >>
    /\ ReadError(db_file, Head(todo)) = "none"
    /\ yielded' = Append(yielded, RepoDbMemberData(db_file, Head(todo)))
    /\ todo' = Tail(todo)
    /\ UNCHANGED << name_vars, db_file, regex, rpc, reader_raised, writer_vars >>

ReaderRaise ==
    /\ rpc = "iter"
    /\ todo # << >>
    /\ ReadError(db_file, Head(todo)) # "none"
    /\ reader_raised' = ReadError(db_file, Head(todo))
    /\ rpc' = "exhausted"
    /\ UNCHANGED << name_vars, db_file, regex, todo, yielded, writer_vars >>

ReaderStop ==
    /\ rpc = "iter"
    /\ todo = << >>
    /\ rpc' = "exhausted"
    /\ UNCHANGED << name_vars, db_file, regex, todo, yielded, reader_raised, writer_vars >>

(***************************************************************************)
(* Inputs.                                                                 *)
(***************************************************************************)
Regexes == { MemberRegex, AnyRegex }

PkgNames == { << "a" >>, << "a", Hyphen, "U+00E9" >> }
Versions == { << "1" >>, << "1", Hyphen, "2" >>, << "1", Hyphen, "2", Hyphen, "3" >> }
Pkgs == { [name |-> n, files |-> << "u", "s", "r", "/" >> \o n] : n \in PkgNames }
Models(n) ==
    { [version |-> v, packages |-> ps] :
        v \in Versions, ps \in UNION { [1..k -> Pkgs] : k \in 0..n } }
Hosts == { [user |-> "root", group |-> "root"], [user |-> "builder", group |-> "users"] }

\* Members of an archive somebody else wrote.
ReadNames ==
    { << "a", Hyphen, "1", Hyphen, "2" >> \o s :
        s \in { << >>, DescSuffix, DescSuffix \o << Newline >>, << "/", "x" >> } }
    \cup { << "a", Hyphen, "b", Hyphen, "1", Hyphen, "2" >> \o FilesSuffix }
Member(name, type, bytes) ==
    [name |-> name, type |-> type, mtime |-> 0, uname |-> "", gname |-> "",
     mode |-> int_base8(<< "0", "6", "4", "4" >>), size |-> Len(bytes), data |-> bytes]
Members ==
    { Member(n, REGTYPE, b) : n \in ReadNames, b \in { encode(<< "U+00E9" >>), << "xC3" >> } }
    \cup { Member(n, DIRTYPE, << >>) : n \in ReadNames }
Archives == UNION { [1..k -> Members] : k \in 0..MaxMembers }

NameIdle == name_arg = << >> /\ name_ret = NotCalled
ReaderClosed ==
    /\ db_file = << >>
    /\ regex = MemberRegex
    /\ rpc = "closed"
    /\ todo = << >>
    /\ yielded = << >>
    /\ reader_raised = "none"
WriterIdle ==
    /\ model = [version |-> << >>, packages |-> << >>]
    /\ db_type = "DEFAULT"
    /\ host = [user |-> "root", group |-> "root"]
    /\ now = 0
    /\ db = << >>
    /\ pc = "done"
    /\ i = 1
    /\ raised = "none"
    /\ run = 1
    /\ first_db = << >>

\* The state when _stream_package_base_to_db is entered with one of n packages at most.
WriterEntered(n) ==
    /\ model \in Models(n)
    /\ db_type \in RepoDbType
    /\ host \in Hosts
    /\ now = 0
    /\ db = << >>
    /\ i = 1
    /\ pc = IF Packages = << >> THEN "done" ELSE "dir"
    /\ raised = "none"
    /\ run = 1
    /\ first_db = << >>

(***************************************************************************)
(* The callers: json -> db -> models, and the same pkgbase written twice.  *)
(***************************************************************************)
\* The archive the writer left is opened and handed to the reader.
Open ==
    /\ pc = "done"
    /\ rpc = "closed"
    /\ db_file' = db
    /\ regex' \in Regexes
    /\ rpc' = "open"
    /\ UNCHANGED << name_vars, todo, yielded, reader_raised, writer_vars >>

\* The writer is run again on the same pkgbase, into a new archive.
Rerun ==
    /\ pc = "done"
    /\ raised = "none"
    /\ run = 1
    /\ run' = 2
    /\ first_db' = db
    /\ db' = << >>
    /\ host' \in Hosts
    /\ i' = 1
    /\ pc' = IF Packages = << >> THEN "done" ELSE "dir"
    /\ UNCHANGED << name_vars, reader_vars, model, db_type, now, raised >>

(***************************************************************************)
(* Specifications.                                                         *)
(***************************************************************************)
Init == NameIdle /\ ReaderClosed /\ WriterEntered(MaxPkgs)
Next ==
    \/ AddDirectory
    \/ AddDesc
    \/ AddFiles
    \/ Raise
    \/ Open
    \/ ReaderStart
    \/ ReaderYield
    \/ ReaderRaise
    \/ ReaderStop
Spec == Init /\ [][Next]_vars

InitTwice == NameIdle /\ ReaderClosed /\ WriterEntered(MaxPkgs)
NextTwice ==
    \/ AddDirectory
    \/ AddDesc
    \/ AddFiles
    \/ Raise
    \/ Rerun
SpecTwice == InitTwice /\ [][NextTwice]_vars

InitRead ==
    /\ NameIdle
    /\ WriterIdle
    /\ db_file \in Archives
    /\ regex \in Regexes
    /\ rpc = "open"
    /\ todo = << >>
    /\ yielded = << >>
    /\ reader_raised = "none"
NextRead ==
    \/ ReaderStart
    \/ ReaderYield
    \/ ReaderRaise
    \/ ReaderStop
SpecRead == InitRead /\ [][NextRead]_vars

InitName ==
    /\ name_arg \in MemberPaths
    /\ name_ret = NotCalled
    /\ ReaderClosed
    /\ WriterIdle
NextName == CallExtract
SpecName == InitName /\ [][NextName]_vars

(***************************************************************************)
(* Properties of the resolver (SpecName).                                  *)
(***************************************************************************)
NoHyphen(s) == \A k \in DOMAIN s : s[k] # Hyphen

\* d is <name>-<version>-<release> with its two last hyphens at a and b.
WellFormedAt(d, a, b) ==
    /\ a < b
    /\ d[a] = Hyphen
    /\ d[b] = Hyphen
    /\ a + 1 < b
    /\ NoHyphen(SubSeq(d, a + 1, b - 1))
    /\ b < Len(d)
    /\ NoHyphen(SubSeq(d, b + 1, Len(d)))
    /\ a > 1
    /\ d[1] # Hyphen
    /\ d[a - 1] # Hyphen

\* The directory part of a path that ends in /desc or /files.
DirPart(path) ==
    IF EndsWith(path, DescSuffix) THEN DropTail(path, Len(DescSuffix))
    ELSE DropTail(path, Len(FilesSuffix))

IsMemberPath(path) == EndsWith(path, DescSuffix) \/ EndsWith(path, FilesSuffix)

\* C1: for a path <name>-<version>-<release>/desc or .../files, version and
\* release non-empty and without a hyphen, the name with inner hyphens only,
\* the resolver returns exactly <name>.
C1_ResolverReturnsName ==
    (name_ret.called /\ IsMemberPath(name_arg)) =>
        \A a, b \in DOMAIN DirPart(name_arg) :
            WellFormedAt(DirPart(name_arg), a, b) =>
                /\ name_ret.raised = "none"
                /\ name_ret.value = SubSeq(DirPart(name_arg), 1, a - 1)

\* foo-style names with a hyphen inside are among the calls: a-a-1-1/files.
C1_Witness ==
    /\ name_ret.called
    /\ name_arg = << "a", Hyphen, "a", Hyphen, "1", Hyphen, "1" >> \o FilesSuffix
    /\ name_ret.value = << "a", Hyphen, "a" >>

\* C2: a path whose directory part has fewer than two hyphens (fewer than
\* four tokens after the split) makes the resolver fail with
\* IdentifierFormatError instead of returning a name.
C2_MalformedDirnameFails ==
    (name_ret.called /\ IsMemberPath(name_arg) /\ HyphenCount(DirPart(name_arg)) < 2) =>
        name_ret.raised = "IdentifierFormatError"

(***************************************************************************)
(* Properties of the reader (SpecRead).                                    *)
(***************************************************************************)
\* The names the generator has gone through: one per record yielded.
Visited == SubSeq(FilterNames(regex, getnames(db_file)), 1, Len(yielded))

\* C6: the reader yields one record for each member name that ends in /desc
\* or /files, in the order of the archive, and nothing for any other name.
C6_OneRecordPerDescOrFilesName ==
    (rpc = "exhausted" /\ reader_raised = "none" /\ regex = MemberRegex) =>
        LET wanted == SelectSeq(getnames(db_file), IsMemberPath)
        IN  /\ Len(yielded) = Len(wanted)
            /\ \A j \in DOMAIN yielded :
                   /\ j <= Len(wanted)
                   /\ yielded[j].name = _extract_db_member_package_name(wanted[j])
                   /\ yielded[j].member_type = IF EndsWith(wanted[j], DescSuffix) THEN "DESC" ELSE "FILES"

\* C9: with the default filter every record yielded is DESC when its member
\* name ends in /desc and FILES when it ends in /files, and never UNKNOWN.
C9_DefaultFilterNeverUnknown ==
    regex = MemberRegex =>
        \A j \in DOMAIN yielded :
            /\ yielded[j].member_type # "UNKNOWN"
            /\ EndsWith(Visited[j], DescSuffix) => yielded[j].member_type = "DESC"
            /\ EndsWith(Visited[j], FilesSuffix) => yielded[j].member_type = "FILES"

\* A desc member and a files member were both yielded under the default filter.
C9_Witness ==
    /\ regex = MemberRegex
    /\ Len(yielded) = 2
    /\ EndsWith(Visited[1], DescSuffix)
    /\ yielded[1].member_type = "DESC"
    /\ EndsWith(Visited[2], FilesSuffix)
    /\ yielded[2].member_type = "FILES"

(***************************************************************************)
(* Properties of the writer (Spec, SpecTwice).                             *)
(***************************************************************************)
\* The package list of the pkgbase, as get_packages_as_models() returns it.
PackageList == get_packages_as_models(model)
PackageName(p) == PackageList[p].desc_model.name
NPackages == Len(PackageList)
Stride == IF db_type = "FILES" THEN 3 ELSE 2

\* <package-name>-<version>, from the pkgbase given
EntryDir(p) == PackageName(p) \o << Hyphen >> \o model.version

Count(archive, name, type) ==
    Cardinality({ k \in DOMAIN archive : archive[k].name = name /\ archive[k].type = type })

\* How many packages of the list write to the directory of package p.
SameDir(p) == Cardinality({ q \in DOMAIN PackageList : EntryDir(q) = EntryDir(p) })

Returned == pc = "done" /\ raised = "none"

\* C3: per package one directory entry <package-name>-<version> and one
\* <package-name>-<version>/desc entry, a .../files entry exactly for a
\* FILES database: 2n entries and no files member, or 3n entries.
C3_EntriesPerPackage ==
    Returned =>
        /\ Len(db) = Stride * NPackages
        /\ \A p \in DOMAIN PackageList :
               /\ Count(db, EntryDir(p), DIRTYPE) = SameDir(p)
               /\ Count(db, EntryDir(p) \o DescSuffix, REGTYPE) = SameDir(p)
               /\ Count(db, EntryDir(p) \o FilesSuffix, REGTYPE)
                      = IF db_type = "FILES" THEN SameDir(p) ELSE 0
        /\ db_type # "FILES" => \A k \in DOMAIN db : ~EndsWith(db[k].name, FilesSuffix)

\* Two different packages were written to a desc-only database: four entries.
C3_Witness ==
    /\ Returned
    /\ db_type = "DEFAULT"
    /\ NPackages = 2
    /\ PackageName(1) # PackageName(2)
    /\ Len(db) = 4

\* C4: the entries of a package are contiguous and in the order directory,
\* desc, files; the packages come in the order of the package list; no desc or
\* files entry comes before the directory entry of its package.
C4_EntryOrder ==
    \A k \in DOMAIN db :
        LET p == ((k - 1) \div Stride) + 1
            r == (k - 1) % Stride
        IN  /\ p <= NPackages
            /\ r = 0 => db[k].type = DIRTYPE /\ db[k].name = EntryDir(p)
            /\ r = 1 => db[k].type = REGTYPE /\ db[k].name = EntryDir(p) \o DescSuffix
            /\ r = 2 => db[k].type = REGTYPE /\ db[k].name = EntryDir(p) \o FilesSuffix
            /\ r > 0 => \E j \in 1..(k - 1) :
                            db[j].type = DIRTYPE /\ db[j].name = EntryDir(p)

\* All six entries of two different packages of a FILES database are written.
C4_Witness ==
    /\ db_type = "FILES"
    /\ NPackages = 2
    /\ PackageName(1) # PackageName(2)
    /\ Len(db) = 6
    /\ db[4].name = EntryDir(2)

\* C7: every entry has the fixed owner and group; a directory entry has type
\* directory and the directory mode, a desc or files entry the file mode;
\* nothing comes from the host or from the package.
C7_FixedOwnerAndModes ==
    \A k \in DOMAIN db :
        /\ db[k].uname = DB_USER
        /\ db[k].gname = DB_GROUP
        /\ IF IsMemberPath(db[k].name)
           THEN db[k].type = REGTYPE /\ db[k].mode = int_base8(DB_FILE_MODE)
           ELSE db[k].type = DIRTYPE /\ db[k].mode = int_base8(DB_DIR_MODE)

\* A process that is not the fixed owner wrote a directory, a desc and a files entry.
C7_Witness ==
    /\ host.user # DB_USER
    /\ host.group # DB_GROUP
    /\ Len(db) >= 3
    /\ db[1].type = DIRTYPE
    /\ IsMemberPath(db[3].name)

\* The names and types of all entries of a run that nothing interrupts.
RECURSIVE FullEntries(_)
FullEntries(p) ==
    IF p > NPackages THEN << >>
    ELSE << << EntryDir(p), DIRTYPE >>, << EntryDir(p) \o DescSuffix, REGTYPE >> >>
             \o (IF db_type = "FILES" THEN << << EntryDir(p) \o FilesSuffix, REGTYPE >> >> ELSE << >>)
             \o FullEntries(p + 1)

EntriesOf(archive) == [k \in DOMAIN archive |-> << archive[k].name, archive[k].type >>]

IsProperPrefix(s, t) == Len(s) < Len(t) /\ SubSeq(t, 1, Len(s)) = s

\* C8: when adding an entry or rendering a record fails, the writer adds no
\* entry after the failure and removes none; the archive holds the entries
\* added before, a proper prefix of the full sequence, and the caller gets
\* the failure.
C8_FailureStopsTheWriter ==
    /\ [](raised # "none" => pc = "done" /\ IsProperPrefix(EntriesOf(db), FullEntries(1)))
    /\ [][(raised # "none" \/ raised' # "none") => db' = db]_vars

\* The writer failed after it had added the entries of a first package.
C8_Witness ==
    /\ raised = "render"
    /\ pc = "done"
    /\ Len(db) = Stride + 1

\* The package the k-th entry of the archive was written for.
PackageOfEntry(k) == ((k - 1) \div Stride) + 1

\* The package the j-th desc or files entry of the archive was written for.
PackageOfFile(j) == ((j - 1) \div (Stride - 1)) + 1

\* C10: when the version is <version>-<release> with one hyphen, the resolver
\* gives back the package name for every desc and files path the writer
\* wrote, also for a name with hyphens, and so does the reader.
C10_WrittenNamesResolve ==
    HyphenCount(model.version) = 1 =>
        /\ \A k \in DOMAIN db :
               db[k].type = REGTYPE =>
                   _extract_db_member_package_name(db[k].name)
                       = PackageName(PackageOfEntry(k))
        /\ regex = MemberRegex =>
               \A j \in DOMAIN yielded :
                   yielded[j].name = PackageName(PackageOfFile(j))

\* The files member of a package with a hyphen in its name was written, read
\* back and resolved.
C10_Witness ==
    /\ HyphenCount(model.version) = 1
    /\ regex = MemberRegex
    /\ Len(yielded) = 2
    /\ yielded[2].member_type = "FILES"
    /\ HyphenCount(yielded[2].name) = 1
    /\ db[3].name = yielded[2].name \o << Hyphen >> \o model.version \o FilesSuffix

BothRunsReturned == run = 2 /\ Returned

\* C5 as stated: two runs on the same pkgbase and database type add the same
\* entries, timestamps included, whenever they take place.
C5_RunsIdenticalWithTimestamps ==
    BothRunsReturned => db = first_db

WithoutMtime(archive) == [k \in DOMAIN archive |-> [archive[k] EXCEPT !.mtime = 0]]

\* C5 as amended: two runs on the same pkgbase and database type add the
\* same sequence of entries with the same names, types, contents, sizes,
\* owner, group and modes, whoever runs them; only the timestamps, the time
\* of each write, may differ.
C5_RunsIdenticalButTimestamps ==
    BothRunsReturned => WithoutMtime(db) = WithoutMtime(first_db)

\* A second run by another user, later: at least one timestamp differs.
C5_Witness ==
    /\ BothRunsReturned
    /\ Len(db) >= 2
    /\ host.user = "builder"
    /\ \E k \in DOMAIN db : db[k].mtime # first_db[k].mtime

====
